---- MODULE Spec2Model ----
(***************************************************************************)
(* The three deployment scripts of KatelyaTV as one state machine:         *)
(*   "deploy"      src/deploy.sh                  (static export, set -e)  *)
(*   "quick"       src/unnamed/part_000:1-30      (quick-deploy, no set -e)*)
(*   "standalone"  src/unnamed/part_000:32-267    (Node server, set -e)    *)
(* The state is the part of the filesystem the scripts touch, the shell's  *)
(* working directory, the position in the script and the exit code.  Every *)
(* command that writes the filesystem is one action; each may succeed or   *)
(* fail with an I/O error (disk quota, permissions), and what the shell    *)
(* does next follows bash's errexit rules.                                 *)
(***************************************************************************)
EXTENDS Naturals, FiniteSets, Sequences, TLC

VARIABLES script,     \* which of the three scripts is running
          pc,         \* position in the script
          exitCode,   \* NoExit while running, then the process exit code
          cwd,        \* working directory of the shell: "root" or "public_html"
          archive,    \* katelyatv-deploy.tar.gz is a file of the root directory
          arc,        \* names of the top-level entries the archive holds
          DEPLOY_DIR, \* public_html  [d: is a directory, f: its entries]
          BACKUP_DIR, \* public_html_backup
          TEMP_DIR,   \* temp_deploy
          start,      \* the filesystem as it was when the script was invoked
          failed,     \* labels of the commands that failed with an I/O error
          dfFailed,   \* some command inside deploy_files returned non-zero
          verified,   \* "none", "ok", "fail": what verify_deployment returned
          atVerify,   \* public_html as verify_deployment saw it
          branch,     \* branch of main taken: "none","success","startfail","rollback"
          extracted   \* the archive extraction has completed successfully

vars == <<script, pc, exitCode, cwd, archive, arc, DEPLOY_DIR, BACKUP_DIR, TEMP_DIR,
          start, failed, dfFailed, verified, atVerify, branch, extracted>>

(***************************************************************************)
(* Bounds.                                                                 *)
(***************************************************************************)
\* most commands of one run that fail with an I/O error
MaxFail == 2

\* exitCode while the script is still running (no exit status of a process)
NoExit == 255 + 1

ArchiveName == "katelyatv-deploy.tar.gz"

\* entry names; ".htaccess" is the dot-file, "temp_deploy" a directory
Names == {"index.html", "server.js", ".htaccess", "temp_deploy"}
\* names a previous deployment may hold
OldNames == {"index.html", "server.js", ".htaccess"}
\* names a backup left by an earlier run may hold
StaleNames == {"index.html", ".htaccess"}
\* names a temp_deploy left by an earlier run may hold
LeftNames == {"server.js"}

Scripts == {"deploy", "quick", "standalone"}

(***************************************************************************)
(* Directories and the shell's view of them.                               *)
(***************************************************************************)
NoDir == [d |-> FALSE, f |-> {}]
Dir(files) == [d |-> TRUE, f |-> files]

Tagged(names, tag) == {<<n, tag>> : n \in names}
NamesOf(files) == {e[1] : e \in files}

\* bash pathname expansion: * does not match names that begin with a dot
IsHidden(n) == n \in {".htaccess"}

\* the entries dir/* expands to
Glob(dir) == {e \in dir.f : ~IsHidden(e[1])}

\* cp -r / tar -x of `files` into a directory holding `into`: same names are overwritten
CopyInto(into, files) == {e \in into : e[1] \notin NamesOf(files)} \cup files

\* what a command that fails half-way may have written / may have left
PartialOf(E) == IF E = {} THEN {{}} ELSE (SUBSET E) \ {E}
RemainOf(E) == IF E = {} THEN {{}} ELSE (SUBSET E) \ {{}}

\* entries that are directories; every other name is a regular file
IsDirName(n) == n = "temp_deploy"

\* [ -f dir/n ] and [ -d dir/n ]
HasFile(dir, n) == dir.d /\ n \in NamesOf(dir.f) /\ ~IsDirName(n)
HasDir(dir, n) == dir.d /\ n \in NamesOf(dir.f) /\ IsDirName(n)

\* rm -rf dir/n
Without(dir, n) == Dir({e \in dir.f : e[1] # n})

CanFail == Cardinality(failed) < MaxFail

input == <<start, script, arc>>

Exit(code) == pc' = "done" /\ exitCode' = code
Goto(label) == pc' = label /\ exitCode' = exitCode
Fail(label) == failed' = failed \cup {label}

(***************************************************************************)
(* The state a script is invoked in.                                       *)
(***************************************************************************)
Init ==
    /\ script \in Scripts
    /\ pc = "start"
    /\ exitCode = NoExit
    /\ cwd = "root"
    /\ archive \in BOOLEAN
    /\ arc \in SUBSET Names
    /\ (~archive => arc = {})
    /\ DEPLOY_DIR \in {NoDir} \cup {Dir(Tagged(S, "old")) : S \in SUBSET OldNames}
    /\ BACKUP_DIR \in {NoDir} \cup {Dir(Tagged(S, "stale")) : S \in SUBSET StaleNames}
    /\ TEMP_DIR \in {NoDir} \cup {Dir(Tagged(S, "stale")) : S \in SUBSET LeftNames}
    /\ start = [archive |-> archive, DEPLOY_DIR |-> DEPLOY_DIR, BACKUP_DIR |-> BACKUP_DIR, TEMP_DIR |-> TEMP_DIR]
    /\ failed = {}
    /\ dfFailed = FALSE
    /\ verified = "none"
    /\ atVerify = NoDir
    /\ branch = "none"
    /\ extracted = FALSE

(***************************************************************************)
(* main: the archive check all three scripts begin with.                   *)
(***************************************************************************)
\* [ -f "katelyatv-deploy.tar.gz" ], a path relative to the working directory
ArchiveIsFile == cwd = "root" /\ archive

ArchiveCheckSkipped == FALSE

\* if [ ! -f "katelyatv-deploy.tar.gz" ]; then ... exit 1
ArchiveMissing == ~ArchiveIsFile

main_archive_check ==
    /\ pc = "start"
    /\ IF ArchiveMissing
         THEN Exit(1)
         ELSE Goto(IF script = "quick" THEN "qd_extract" ELSE "cod_rm")
    /\ UNCHANGED <<cwd, archive, DEPLOY_DIR, BACKUP_DIR, TEMP_DIR, failed, dfFailed,
                   verified, atVerify, branch, extracted, input>>

(***************************************************************************)
(* cleanup_old_deployment (errexit in force: a failing command ends the    *)
(* script with that command's status).                                     *)
(***************************************************************************)
cleanup_old_deployment_rm ==
    /\ pc = "cod_rm"
    /\ IF BACKUP_DIR.d
         THEN \E ok \in BOOLEAN :
                /\ ok \/ CanFail
                /\ IF ok
                     THEN BACKUP_DIR' = NoDir /\ Goto("cod_cp") /\ failed' = failed
                     ELSE /\ \E R \in RemainOf(BACKUP_DIR.f) : BACKUP_DIR' = Dir(R)
                          /\ Fail("cod_rm") /\ Exit(1)
         ELSE Goto("cod_cp") /\ UNCHANGED <<BACKUP_DIR, failed>>
    /\ UNCHANGED <<cwd, archive, DEPLOY_DIR, TEMP_DIR, dfFailed,
                   verified, atVerify, branch, extracted, input>>

BackupNeededVisibleOnly == DEPLOY_DIR.d /\ Glob(DEPLOY_DIR) # {}

\* [ -d "$DEPLOY_DIR" ] && [ "$(ls -A $DEPLOY_DIR 2>/dev/null)" ]
BackupNeeded == DEPLOY_DIR.d /\ DEPLOY_DIR.f # {}

cleanup_old_deployment_cp ==
    /\ pc = "cod_cp"
    /\ IF BackupNeeded
         THEN \E ok \in BOOLEAN :
                /\ ok \/ CanFail
                /\ IF ok
                     THEN /\ BACKUP_DIR' = IF BACKUP_DIR.d
                                         THEN Dir(CopyInto(BACKUP_DIR.f, {<<"public_html", "old">>}))
                                         ELSE Dir(DEPLOY_DIR.f)
                          /\ Goto("prep_mkdir") /\ failed' = failed
                     ELSE /\ \E S \in PartialOf(DEPLOY_DIR.f) : BACKUP_DIR' = Dir(S)
                          /\ Fail("cod_cp") /\ Exit(1)
         ELSE Goto("prep_mkdir") /\ UNCHANGED <<BACKUP_DIR, failed>>
    /\ UNCHANGED <<cwd, archive, DEPLOY_DIR, TEMP_DIR, dfFailed,
                   verified, atVerify, branch, extracted, input>>

(***************************************************************************)
(* prepare_deployment (errexit in force).                                  *)
(***************************************************************************)
prepare_deployment_mkdir ==
    /\ pc = "prep_mkdir"
    /\ \E ok \in BOOLEAN :
         /\ ok \/ (CanFail /\ ~TEMP_DIR.d)
         /\ IF ok
              THEN TEMP_DIR' = Dir(TEMP_DIR.f) /\ Goto("prep_tar") /\ failed' = failed
              ELSE TEMP_DIR' = TEMP_DIR /\ Fail("prep_mkdir") /\ Exit(1)
    /\ UNCHANGED <<cwd, archive, DEPLOY_DIR, BACKUP_DIR, dfFailed,
                   verified, atVerify, branch, extracted, input>>

prepare_deployment_tar ==
    /\ pc = "prep_tar"
    /\ IF ArchiveIsFile
         THEN \E ok \in BOOLEAN :
                /\ ok \/ CanFail
                /\ IF ok
                     THEN /\ TEMP_DIR' = Dir(CopyInto(TEMP_DIR.f, Tagged(arc, "new")))
                          /\ extracted' = TRUE
                          /\ Goto("df_clear") /\ failed' = failed
                     ELSE /\ \E S \in PartialOf(Tagged(arc, "new")) :
                                TEMP_DIR' = Dir(CopyInto(TEMP_DIR.f, S))
                          /\ extracted' = FALSE
                          /\ Fail("prep_tar") /\ Exit(2)
         ELSE Exit(1) /\ UNCHANGED <<TEMP_DIR, extracted, failed>>
    /\ UNCHANGED <<cwd, archive, DEPLOY_DIR, BACKUP_DIR, dfFailed,
                   verified, atVerify, branch, input>>

(***************************************************************************)
(* deploy_files.  It is called as `if deploy_files && verify_deployment`,  *)
(* a context in which bash ignores errexit for every command of the        *)
(* function: a failing command is followed by the next one, and the        *)
(* function returns the status of its last command, an echo.               *)
(***************************************************************************)
\* rm -rf "${DEPLOY_DIR:?}"/* : what is left of the directory
ClearedKeepAll(dir) == dir.f

Cleared(dir) == dir.f \ Glob(dir)

deploy_files_clear ==
    /\ pc = "df_clear"
    /\ IF DEPLOY_DIR.d
         THEN \E ok \in BOOLEAN :
                /\ ok \/ (CanFail /\ Glob(DEPLOY_DIR) # {})
                /\ IF ok
                     THEN /\ DEPLOY_DIR' = Dir(Cleared(DEPLOY_DIR))
                          /\ UNCHANGED <<failed, dfFailed>>
                     ELSE /\ \E R \in RemainOf(Glob(DEPLOY_DIR)) :
                                DEPLOY_DIR' = Dir(Cleared(DEPLOY_DIR) \cup R)
                          /\ Fail("df_clear") /\ dfFailed' = TRUE
         ELSE \E ok \in BOOLEAN :
                /\ ok \/ CanFail
                /\ IF ok
                     THEN DEPLOY_DIR' = Dir({}) /\ UNCHANGED <<failed, dfFailed>>
                     ELSE DEPLOY_DIR' = DEPLOY_DIR /\ Fail("df_mkdir") /\ dfFailed' = TRUE
    /\ Goto("df_cp")
    /\ UNCHANGED <<cwd, archive, BACKUP_DIR, TEMP_DIR,
                   verified, atVerify, branch, extracted, input>>

\* cp -r "$TEMP_DIR"/* "$DEPLOY_DIR"/ : with nothing for * to match, or no target
\* directory, cp fails and copies nothing
deploy_files_cp ==
    /\ pc = "df_cp"
    /\ IF Glob(TEMP_DIR) = {} \/ ~DEPLOY_DIR.d
         THEN DEPLOY_DIR' = DEPLOY_DIR /\ dfFailed' = TRUE /\ failed' = failed
         ELSE \E ok \in BOOLEAN :
                /\ ok \/ CanFail
                /\ IF ok
                     THEN /\ DEPLOY_DIR' = Dir(CopyInto(DEPLOY_DIR.f, Glob(TEMP_DIR)))
                          /\ UNCHANGED <<failed, dfFailed>>
                     ELSE /\ \E S \in PartialOf(Glob(TEMP_DIR)) :
                                DEPLOY_DIR' = Dir(CopyInto(DEPLOY_DIR.f, S))
                          /\ Fail("df_cp") /\ dfFailed' = TRUE
    /\ Goto(IF script = "standalone" THEN "df_startsh" ELSE "df_chmod")
    /\ UNCHANGED <<cwd, archive, BACKUP_DIR, TEMP_DIR,
                   verified, atVerify, branch, extracted, input>>

\* standalone only: cat > "$DEPLOY_DIR/start.sh" ; chmod +x
deploy_files_start_sh ==
    /\ pc = "df_startsh"
    /\ IF ~DEPLOY_DIR.d
         THEN DEPLOY_DIR' = DEPLOY_DIR /\ dfFailed' = TRUE /\ failed' = failed
         ELSE \E ok \in BOOLEAN :
                /\ ok \/ CanFail
                /\ IF ok
                     THEN /\ DEPLOY_DIR' = Dir(CopyInto(DEPLOY_DIR.f, {<<"start.sh", "gen">>}))
                          /\ UNCHANGED <<failed, dfFailed>>
                     ELSE DEPLOY_DIR' = DEPLOY_DIR /\ Fail("df_startsh") /\ dfFailed' = TRUE
    /\ Goto("df_chmod")
    /\ UNCHANGED <<cwd, archive, BACKUP_DIR, TEMP_DIR,
                   verified, atVerify, branch, extracted, input>>

\* chmod -R 755 ; find ... -exec chmod 644 : modes are not part of the state
deploy_files_chmod ==
    /\ pc = "df_chmod"
    /\ IF ~DEPLOY_DIR.d
         THEN dfFailed' = TRUE /\ failed' = failed
         ELSE \E ok \in BOOLEAN :
                /\ ok \/ CanFail
                /\ IF ok
                     THEN UNCHANGED <<failed, dfFailed>>
                     ELSE Fail("df_chmod") /\ dfFailed' = TRUE
    /\ Goto("verify")
    /\ UNCHANGED <<cwd, archive, DEPLOY_DIR, BACKUP_DIR, TEMP_DIR,
                   verified, atVerify, branch, extracted, input>>

\* the status deploy_files returns: that of its last command, echo
DeployFilesStatus == 0

(***************************************************************************)
(* verify_deployment and the branch of main.                               *)
(***************************************************************************)
Marker == IF script = "standalone" THEN "server.js" ELSE "index.html"

VerifyAlwaysOk == TRUE

\* [ -f "$DEPLOY_DIR/index.html" ] (deploy.sh), [ -f "$DEPLOY_DIR/server.js" ] (standalone)
VerifyOk == HasFile(DEPLOY_DIR, Marker)

\* if deploy_files && verify_deployment; then ... else ... fi
verify_deployment ==
    /\ pc = "verify"
    /\ IF DeployFilesStatus = 0
         THEN /\ atVerify' = DEPLOY_DIR
              /\ verified' = IF VerifyOk THEN "ok" ELSE "fail"
         ELSE UNCHANGED <<atVerify, verified>>
    /\ IF DeployFilesStatus = 0 /\ VerifyOk
         THEN IF script = "standalone"
                THEN Goto("start_app") /\ branch' = branch
                ELSE Goto("ct_temp") /\ branch' = "success"
         ELSE Goto("rb_clear") /\ branch' = "rollback"
    /\ UNCHANGED <<cwd, archive, DEPLOY_DIR, BACKUP_DIR, TEMP_DIR, failed, dfFailed,
                   extracted, input>>

(***************************************************************************)
(* start_application (standalone), called as `if start_application`.       *)
(* It changes the working directory of the script's own shell.             *)
(***************************************************************************)
start_application ==
    /\ pc = "start_app"
    /\ cwd' = IF DEPLOY_DIR.d THEN "public_html" ELSE cwd
    /\ \E node \in BOOLEAN, alive \in BOOLEAN :
         /\ DEPLOY_DIR' = IF node /\ DEPLOY_DIR.d
                        THEN Dir(CopyInto(DEPLOY_DIR.f, {<<"app.log", "gen">>}))
                        ELSE DEPLOY_DIR
         /\ branch' = IF node /\ alive THEN "success" ELSE "startfail"
    /\ Goto("ct_temp")
    /\ UNCHANGED <<archive, BACKUP_DIR, TEMP_DIR, failed, dfFailed,
                   verified, atVerify, extracted, input>>

(***************************************************************************)
(* rollback_deployment (errexit in force).                                 *)
(***************************************************************************)
BackupAssumed == TRUE

\* [ -d "$BACKUP_DIR" ]
BackupAvailable == BACKUP_DIR.d

rollback_deployment_rm ==
    /\ pc = "rb_clear"
    /\ IF BackupAvailable
         THEN \E ok \in BOOLEAN :
                /\ ok \/ (CanFail /\ Glob(DEPLOY_DIR) # {})
                /\ IF ok
                     THEN /\ DEPLOY_DIR' = IF DEPLOY_DIR.d THEN Dir(Cleared(DEPLOY_DIR)) ELSE DEPLOY_DIR
                          /\ Goto("rb_cp") /\ failed' = failed
                     ELSE /\ \E R \in RemainOf(Glob(DEPLOY_DIR)) :
                                DEPLOY_DIR' = Dir(Cleared(DEPLOY_DIR) \cup R)
                          /\ Fail("rb_clear") /\ Exit(1)
         ELSE Goto("ct_temp") /\ UNCHANGED <<DEPLOY_DIR, failed>>
    /\ UNCHANGED <<cwd, archive, BACKUP_DIR, TEMP_DIR, dfFailed,
                   verified, atVerify, branch, extracted, input>>

\* cp -r "$BACKUP_DIR"/* "$DEPLOY_DIR"/
rollback_deployment_cp ==
    /\ pc = "rb_cp"
    /\ IF Glob(BACKUP_DIR) = {} \/ ~DEPLOY_DIR.d
         THEN Exit(1) /\ UNCHANGED <<DEPLOY_DIR, failed>>
         ELSE \E ok \in BOOLEAN :
                /\ ok \/ CanFail
                /\ IF ok
                     THEN /\ DEPLOY_DIR' = Dir(CopyInto(DEPLOY_DIR.f, Glob(BACKUP_DIR)))
                          /\ Goto("ct_temp") /\ failed' = failed
                     ELSE /\ \E S \in PartialOf(Glob(BACKUP_DIR)) :
                                DEPLOY_DIR' = Dir(CopyInto(DEPLOY_DIR.f, S))
                          /\ Fail("rb_cp") /\ Exit(1)
    /\ UNCHANGED <<cwd, archive, BACKUP_DIR, TEMP_DIR, dfFailed,
                   verified, atVerify, branch, extracted, input>>

(***************************************************************************)
(* cleanup_temp (errexit in force).  Its two paths are relative: they name *)
(* entries of whatever directory the shell is in when it runs.             *)
(***************************************************************************)
\* [ -d "$TEMP_DIR" ]
TempDirSeen == IF cwd = "root" THEN TEMP_DIR.d ELSE HasDir(DEPLOY_DIR, "temp_deploy")

cleanup_temp_dir ==
    /\ pc = "ct_temp"
    /\ IF TempDirSeen
         THEN \E ok \in BOOLEAN :
                /\ ok \/ CanFail
                /\ IF ok
                     THEN /\ IF cwd = "root"
                               THEN TEMP_DIR' = NoDir /\ DEPLOY_DIR' = DEPLOY_DIR
                               ELSE TEMP_DIR' = TEMP_DIR /\ DEPLOY_DIR' = Without(DEPLOY_DIR, "temp_deploy")
                          /\ Goto("ct_arc") /\ failed' = failed
                     ELSE /\ UNCHANGED <<TEMP_DIR, DEPLOY_DIR>>
                          /\ Fail("ct_temp") /\ Exit(1)
         ELSE Goto("ct_arc") /\ UNCHANGED <<TEMP_DIR, DEPLOY_DIR, failed>>
    /\ UNCHANGED <<cwd, archive, BACKUP_DIR, dfFailed,
                   verified, atVerify, branch, extracted, input>>

\* [ -f "katelyatv-deploy.tar.gz" ]
ArchiveSeen == IF cwd = "root" THEN archive ELSE HasFile(DEPLOY_DIR, ArchiveName)

cleanup_temp_archive ==
    /\ pc = "ct_arc"
    /\ IF ArchiveSeen
         THEN \E ok \in BOOLEAN :
                /\ ok \/ CanFail
                /\ IF ok
                     THEN /\ IF cwd = "root"
                               THEN archive' = FALSE /\ DEPLOY_DIR' = DEPLOY_DIR
                               ELSE archive' = archive /\ DEPLOY_DIR' = Without(DEPLOY_DIR, ArchiveName)
                          /\ Goto("finish") /\ failed' = failed
                     ELSE /\ UNCHANGED <<archive, DEPLOY_DIR>>
                          /\ Fail("ct_arc") /\ Exit(1)
         ELSE Goto("finish") /\ UNCHANGED <<archive, DEPLOY_DIR, failed>>
    /\ UNCHANGED <<cwd, BACKUP_DIR, TEMP_DIR, dfFailed,
                   verified, atVerify, branch, extracted, input>>

\* the end of main: `exit 1` after the rollback branch, else the status of the
\* last command, 0
main_end ==
    /\ pc = "finish"
    /\ Exit(IF branch = "rollback" THEN 1 ELSE 0)
    /\ UNCHANGED <<cwd, archive, DEPLOY_DIR, BACKUP_DIR, TEMP_DIR, failed, dfFailed,
                   verified, atVerify, branch, extracted, input>>

(***************************************************************************)
(* quick-deploy: no errexit, every command runs whatever the one before it *)
(* returned.                                                               *)
(***************************************************************************)
\* tar -xzf katelyatv-deploy.tar.gz -C public_html/
quick_deploy_tar ==
    /\ pc = "qd_extract"
    /\ IF ~DEPLOY_DIR.d
         THEN UNCHANGED <<DEPLOY_DIR, extracted, failed>>
         ELSE \E ok \in BOOLEAN :
                /\ ok \/ CanFail
                /\ IF ok
                     THEN /\ DEPLOY_DIR' = Dir(CopyInto(DEPLOY_DIR.f, Tagged(arc, "new")))
                          /\ extracted' = TRUE /\ failed' = failed
                     ELSE /\ \E S \in PartialOf(Tagged(arc, "new")) :
                                DEPLOY_DIR' = Dir(CopyInto(DEPLOY_DIR.f, S))
                          /\ extracted' = FALSE /\ Fail("qd_extract")
    /\ Goto("qd_chmod")
    /\ UNCHANGED <<cwd, archive, BACKUP_DIR, TEMP_DIR, dfFailed,
                   verified, atVerify, branch, input>>

\* chmod -R 755 public_html/ ; find public_html/ -type f -exec chmod 644 {} \;
quick_deploy_chmod ==
    /\ pc = "qd_chmod"
    /\ \E ok \in BOOLEAN :
         /\ ok \/ (CanFail /\ DEPLOY_DIR.d)
         /\ failed' = IF ok THEN failed ELSE failed \cup {"qd_chmod"}
    /\ Goto("qd_rm")
    /\ UNCHANGED <<cwd, archive, DEPLOY_DIR, BACKUP_DIR, TEMP_DIR, dfFailed,
                   verified, atVerify, branch, extracted, input>>

\* rm -f katelyatv-deploy.tar.gz
quick_deploy_rm ==
    /\ pc = "qd_rm"
    /\ \E ok \in BOOLEAN :
         /\ ok \/ CanFail
         /\ IF ok
              THEN archive' = FALSE /\ failed' = failed
              ELSE archive' = archive /\ Fail("qd_rm")
    /\ Goto("qd_finish")
    /\ UNCHANGED <<cwd, DEPLOY_DIR, BACKUP_DIR, TEMP_DIR, dfFailed,
                   verified, atVerify, branch, extracted, input>>

\* echo "Deployment complete!" ; the script ends with the status of its last echo
quick_deploy_end ==
    /\ pc = "qd_finish"
    /\ Exit(0)
    /\ UNCHANGED <<cwd, archive, DEPLOY_DIR, BACKUP_DIR, TEMP_DIR, failed, dfFailed,
                   verified, atVerify, branch, extracted, input>>

Next ==
    \/ main_archive_check
    \/ cleanup_old_deployment_rm
    \/ cleanup_old_deployment_cp
    \/ prepare_deployment_mkdir
    \/ prepare_deployment_tar
    \/ deploy_files_clear
    \/ deploy_files_cp
    \/ deploy_files_start_sh
    \/ deploy_files_chmod
    \/ verify_deployment
    \/ start_application
    \/ rollback_deployment_rm
    \/ rollback_deployment_cp
    \/ cleanup_temp_dir
    \/ cleanup_temp_archive
    \/ main_end
    \/ quick_deploy_tar
    \/ quick_deploy_chmod
    \/ quick_deploy_rm
    \/ quick_deploy_end

Spec == Init /\ [][Next]_vars

(***************************************************************************)
(* Properties.                                                             *)
(***************************************************************************)
Guarded == script \in {"deploy", "standalone"}
StartedNonEmpty == start.DEPLOY_DIR.d /\ start.DEPLOY_DIR.f # {}
Done == pc = "done"

\* C1: in each of the three scripts, when the archive is absent at the start the
\* script exits with code 1 and public_html, public_html_backup and temp_deploy
\* are exactly as they were (an existing backup is not deleted).
C1_MissingArchiveChangesNothing ==
    (Done /\ ~start.archive) =>
        /\ exitCode = 1
        /\ DEPLOY_DIR = start.DEPLOY_DIR
        /\ BACKUP_DIR = start.BACKUP_DIR
        /\ TEMP_DIR = start.TEMP_DIR

C1_Witness ==
    /\ Done /\ ~start.archive /\ exitCode = 1
    /\ start.BACKUP_DIR.d /\ start.BACKUP_DIR.f # {} /\ StartedNonEmpty

\* C2: whenever deploy.sh exits with code 0, public_html/index.html exists, and
\* whenever the standalone script exits with code 0, public_html/server.js exists.
C2_SuccessImpliesMarker ==
    (Done /\ Guarded /\ exitCode = 0) => HasFile(DEPLOY_DIR, Marker)

C2_Witness ==
    /\ Done /\ script = "standalone" /\ exitCode = 0
    /\ failed # {} /\ HasFile(DEPLOY_DIR, "server.js")

\* C3: in deploy.sh and the standalone script, in a run that started with a
\* non-empty public_html, every step that changes public_html is taken with the
\* archive extraction completed and with public_html_backup holding a complete
\* copy of what public_html held at the start.
C3_BackupBeforeOverwrite ==
    [][(Guarded /\ StartedNonEmpty /\ DEPLOY_DIR' # DEPLOY_DIR)
         => (extracted /\ BACKUP_DIR = Dir(start.DEPLOY_DIR.f))]_vars

C3_Witness ==
    /\ Guarded /\ StartedNonEmpty
    /\ pc = "df_cp" /\ DEPLOY_DIR # start.DEPLOY_DIR
    /\ BACKUP_DIR = Dir(start.DEPLOY_DIR.f)

\* C4: in deploy.sh and the standalone script, when verify_deployment fails in a
\* run that started with a non-empty public_html, and rollback's own rm and cp
\* meet no I/O error, the script takes the rollback branch, exits with code 1 and
\* leaves public_html holding exactly what it held before the run.
C4_RollbackRestores ==
    (Done /\ Guarded /\ StartedNonEmpty /\ verified = "fail"
          /\ failed \cap {"rb_clear", "rb_cp"} = {}) =>
        /\ branch = "rollback"
        /\ exitCode = 1
        /\ DEPLOY_DIR = start.DEPLOY_DIR

C4_Witness ==
    /\ Done /\ Guarded /\ StartedNonEmpty /\ verified = "fail"
    /\ failed \cap {"rb_clear", "rb_cp"} = {}
    /\ \E e \in atVerify.f : e[2] = "new"
    /\ \E e \in start.DEPLOY_DIR.f : e \notin atVerify.f
    /\ DEPLOY_DIR = start.DEPLOY_DIR

\* C5: in deploy.sh and the standalone script, a run in which a command inside
\* deploy_files failed takes the failure branch and no other: once main has
\* chosen its branch it is the rollback branch, and the script exits with code 1.
C5_DeployFailureTakesFailureBranch ==
    (Guarded /\ dfFailed /\ pc \notin {"df_cp", "df_startsh", "df_chmod", "verify"}) =>
        /\ branch = "rollback"
        /\ Done => exitCode = 1

\* C6: in deploy.sh and the standalone script, every run that reaches the deploy
\* step ends with neither temp_deploy nor katelyatv-deploy.tar.gz present in the
\* directory the script was invoked from (stated for runs without any I/O error).
C6_TempFilesGone ==
    (Done /\ Guarded /\ extracted /\ failed = {}) => (~TEMP_DIR.d /\ ~archive)

\* C7: in quick-deploy the archive is deleted, and success (exit 0) reported,
\* only after the archive has been successfully extracted into public_html.
C7_DeleteOnlyAfterExtraction ==
    (script = "quick" /\ start.archive /\ (~archive \/ (Done /\ exitCode = 0)))
        => extracted

\* C8: in the standalone script, after a failure of start_application (and no
\* I/O error) the script ends with exit code 0, public_html_backup is as
\* cleanup_old_deployment left it, and every file that was deployed is still
\* in public_html.
C8_StartFailureKeepsDeployment ==
    (Done /\ script = "standalone" /\ branch = "startfail" /\ failed = {}) =>
        /\ exitCode = 0
        /\ BACKUP_DIR = IF StartedNonEmpty THEN Dir(start.DEPLOY_DIR.f) ELSE NoDir
        /\ atVerify.f \subseteq DEPLOY_DIR.f

\* C9: after deploy_files of deploy.sh has run with no command failing, the
\* top-level entries of public_html are those of temp_deploy, dot-files
\* included: no entry of the previous deployment is left and every entry of
\* the archive is there.
C9_DeployReplacesContent ==
    (script = "deploy" /\ pc = "verify" /\ ~dfFailed) =>
        /\ NamesOf(DEPLOY_DIR.f) = NamesOf(TEMP_DIR.f)
        /\ \A e \in DEPLOY_DIR.f : e[2] # "old"
        /\ arc \subseteq NamesOf(DEPLOY_DIR.f)

\* C10: in deploy.sh, when public_html is empty or absent at the start, then
\* once cleanup_old_deployment has run there is no backup directory (none is
\* created, an earlier one is deleted); and if verification fails the run ends
\* with public_html as verify_deployment saw it (nothing restored, the copied
\* files remain), temp_deploy and the archive removed, and exit code 1.
C10_NoBackupNoRestore ==
    (script = "deploy" /\ start.archive /\ start.DEPLOY_DIR.f = {}) =>
        /\ (pc \notin {"start", "cod_rm"} /\ "cod_rm" \notin failed) => ~BACKUP_DIR.d
        /\ (Done /\ verified = "fail" /\ failed \cap {"ct_temp", "ct_arc"} = {}) =>
              /\ DEPLOY_DIR = atVerify
              /\ ~TEMP_DIR.d /\ ~archive
              /\ exitCode = 1

C10_Witness ==
    /\ script = "deploy" /\ start.DEPLOY_DIR.f = {} /\ start.BACKUP_DIR.d
    /\ Done /\ verified = "fail" /\ failed = {}
    /\ \E e \in DEPLOY_DIR.f : e[2] = "new"
    /\ ~BACKUP_DIR.d

====
